---- MODULE Spec2Model ----
(***************************************************************************)
(* Bike wishlist CLI (src/main.py): the three menu loops of the program    *)
(* and the statements they issue against the four tables of the store.     *)
(*                                                                         *)
(* A text typed at a prompt is a sequence of one-character strings, so     *)
(* that strip(), lower(), int() and the ILIKE match are computed and not   *)
(* assumed.  An optional value (None, a failed parse, no current wishlist) *)
(* is the empty tuple, a present value v is the one-element tuple <<v>>.   *)
(***************************************************************************)
EXTENDS Integers, Sequences, FiniteSets, Bags, TLC

VARIABLES
    List_Tracker,      \* table "List_Tracker": bag of wishlist names
    Wish_List,         \* table "Wish_List": bag of rows
    menu,              \* which loop reads input: "login" (the password prompt), "main",
                       \* "detail", "browser"; "exited" after the process has ended of
                       \* its own accord, "crashed" after an uncaught error
    wishlist_name,     \* viewList's argument while its loop runs: <<name>>, else <<>>
    current_category,  \* get_product_details' selector: <<>> is None, <<id>> a category
    op,                \* the menu operation that ran last
    msg,               \* the last message that operation printed
    fk_enforced,       \* whether the store enforces the REFERENCES clauses of Wish_List
    attempts,          \* __main__'s attempts: connection attempts left
    password_attempts, \* get_password's attempts: empty passwords it still puts up with
    prompted,          \* how often "Enter your database password: " has been shown
    products,          \* table "Products" as the store holds it now
    categories,        \* table "Categories" as the store holds it now
    conn               \* __main__'s conn: FALSE is None, TRUE an open connection

vars == <<List_Tracker, Wish_List, menu, wishlist_name, current_category, op, msg, fk_enforced,
          attempts, password_attempts, prompted, products, categories, conn>>

\* what of the start-up is left while the menus run
startup == <<attempts, password_attempts, prompted, conn>>

\* the tables of the store
DB == [List_Tracker |-> List_Tracker, Wish_List |-> Wish_List,
       Products |-> products, Categories |-> categories]

-----------------------------------------------------------------------------
(* Bounds of the model *)

\* Rows the Wish_List table may hold before the model stops inserting.
MaxRows == 2

\* Rows the List_Tracker table may hold before the model stops inserting.
MaxLists == 2

-----------------------------------------------------------------------------
(* Text *)

UpperCase == <<"A","B","C","D","E","F","G","H","I","J","K","L","M",
               "N","O","P","Q","R","S","T","U","V","W","X","Y","Z">>
LowerCase == <<"a","b","c","d","e","f","g","h","i","j","k","l","m",
               "n","o","p","q","r","s","t","u","v","w","x","y","z">>
Digits == <<"0","1","2","3","4","5","6","7","8","9">>
Whitespace == {" ", "\t"}

\* str.lower() on one character
ToLower ==
    [c \in { UpperCase[i] : i \in 1..Len(UpperCase) } |->
        LowerCase[CHOOSE i \in 1..Len(UpperCase) : UpperCase[i] = c]]

LowerChar(c) == IF c \in DOMAIN ToLower THEN ToLower[c] ELSE c

\* str.lower()
Lower(s) == [i \in 1..Len(s) |-> LowerChar(s[i])]

RECURSIVE LStrip(_)
LStrip(s) == IF s # <<>> /\ Head(s) \in Whitespace THEN LStrip(Tail(s)) ELSE s

RECURSIVE RStrip(_)
RStrip(s) ==
    IF s # <<>> /\ s[Len(s)] \in Whitespace THEN RStrip(SubSeq(s, 1, Len(s) - 1)) ELSE s

\* str.strip()
Strip(s) == RStrip(LStrip(s))

Exit == <<"e","x","i","t">>

\* the test  text.lower() == "exit"  every cancellable prompt makes
IsExit(s) == Lower(s) = Exit

DigitOf ==
    [c \in { Digits[i] : i \in 1..Len(Digits) } |->
        (CHOOSE i \in 1..Len(Digits) : Digits[i] = c) - 1]

IsDigit(c) == c \in DOMAIN DigitOf

DigitValue(c) == DigitOf[c]

RECURSIVE DigitsValue(_)
DigitsValue(s) ==
    IF s = <<>> THEN 0
    ELSE 10 * DigitsValue(SubSeq(s, 1, Len(s) - 1)) + DigitValue(s[Len(s)])

\* An optionally signed decimal literal: <<n>>, or <<>> when the text is no integer.
ParseInt(s) ==
    LET body == IF s # <<>> /\ Head(s) \in {"+", "-"} THEN Tail(s) ELSE s
    IN  IF body = <<>> \/ \E i \in 1..Len(body) : ~IsDigit(body[i])
        THEN <<>>
        ELSE IF Head(s) = "-" THEN << 0 - DigitsValue(body) >> ELSE << DigitsValue(body) >>

\* Python's int(text) on an already stripped text; <<>> is ValueError.
PyInt(s) == ParseInt(Strip(s))

\* The store's cast of a text parameter to an INT column; <<>> is the store's
\* "invalid input syntax for type integer" error.
PgInt(s) == ParseInt(Strip(s))

RECURSIVE NatToStr(_)
NatToStr(n) == IF n < 10 THEN <<Digits[n + 1]>> ELSE NatToStr(n \div 10) \o <<Digits[(n % 10) + 1]>>

\* str(n): the text a user types for the integer n
IntToStr(n) == IF n < 0 THEN <<"-">> \o NatToStr(0 - n) ELSE NatToStr(n)

\* SQL LIKE on lower-cased operands: % is any run of characters, _ any one character.
RECURSIVE LikeMatch(_, _)
LikeMatch(p, s) ==
    IF p = <<>> THEN s = <<>>
    ELSE IF Head(p) = "%"
         THEN LikeMatch(Tail(p), s) \/ (s # <<>> /\ LikeMatch(p, Tail(s)))
         ELSE s # <<>> /\ (Head(p) = "_" \/ Head(p) = Head(s)) /\ LikeMatch(Tail(p), Tail(s))

\* text ILIKE pattern
ILike(text, pattern) == LikeMatch(Lower(pattern), Lower(text))

\* Python's  a in b  on strings
Contains(b, a) ==
    \E i \in 0..(Len(b) - Len(a)) : SubSeq(b, i + 1, i + Len(a)) = a

-----------------------------------------------------------------------------
(* The tables "Categories" and "Products" as the store holds them when the   *)
(* program starts.  The queries on them are computed on these rows;          *)
(* C13_CatalogueReadOnly shows that the store never holds other ones.        *)

Categories == { [category_id |-> 0, category_name |-> "Tires"],
                [category_id |-> 1, category_name |-> "Tubes"] }

Products == { [product_id |-> 1, product_name |-> <<"T","i","r","e">>, category_id |-> 0],
              [product_id |-> 2, product_name |-> <<"F","l","e","x","i","T","u","b","e">>,
               category_id |-> 1],
              [product_id |-> 3, product_name |-> <<"P","u","m","p">>, category_id |-> 1] }

ProductIds == { p.product_id : p \in Products }

-----------------------------------------------------------------------------
(* What the user may type *)

\* a menu choice
ChoiceInputs == { <<"1">>, <<"2">>, <<"3">>, <<"4">>, <<"5">>, <<"6">>, <<"7">>,
                  <<"e","x","i","t">>, <<" ","2">>, <<"0">> }

\* a wishlist name
ListNameInputs == { <<"R","d">>, <<" ","R","d"," ">>, <<"r">>, <<" ","E","x","i","t">> }

\* a product ID
IdInputs == { <<"1">>, <<" ","0","3">>, <<"9">>, <<"x">>, <<"E","x","i","t">> }

\* a product name
ProductNameInputs == { <<" ","T","i">>, <<"e">>, <<"z","z">>, <<"t","_","r">>,
                       <<"E","x","i","t">> }

\* a quantity
QuantityInputs == { <<" ","2">>, <<"-","1">>, <<"2",".","5">>, <<"E","x","i","t">> }

\* an answer to "Do you own this item?"
OwnedInputs == { <<"y","e","s">>, <<" ","Y","E","S">>, <<"n","o">>, <<>>,
                 <<" ","E","x","i","t">> }

\* a category ID
CategoryInputs == { <<" ","A","L","L">>, <<"0">>, <<" ","1">>, <<"7">>, <<"x">>,
                    <<"e","x","i","t">> }

\* what stands for the answer to a prompt that is never shown
NotAsked == <<"(not asked)">>

-----------------------------------------------------------------------------
(* The store.  A handler is a function of the tables d it finds and of the  *)
(* texts typed at its prompts; it yields the tables it leaves, the menu that *)
(* reads the next input, the last message printed and the prompts shown.     *)

\* A parameter bound to a product_id placeholder: the text the user typed, or the
\* integer read back from Products.
TextParam(s) == [kind |-> "text", v |-> s]
IntParam(n) == [kind |-> "int", v |-> n]

\* The store's value of a product_id parameter: <<id>>, or <<>> when it raises.
SqlInt(param) == IF param.kind = "int" THEN <<param.v>> ELSE PgInt(param.v)

Row(w, p, q, o) == [wishlist_name |-> w, product_id |-> p, number |-> q, owned |-> o]

\* WHERE wishlist_name = w AND product_id = p
Matches(r, w, p) == r.wishlist_name = w /\ r.product_id = p

RECURSIVE SumCopies(_, _)
SumCopies(B, S) ==
    IF S = {} THEN 0
    ELSE LET r == CHOOSE x \in S : TRUE IN B[r] + SumCopies(B, S \ {r})

\* the table after every row r is replaced by f[r]
UpdateBag(B, f) ==
    LET img == { f[r] : r \in DOMAIN B }
    IN  [t \in img |-> SumCopies(B, { r \in DOMAIN B : f[r] = t })]

\* the table without the rows S
DeleteWhere(B, S) == [r \in (DOMAIN B) \ S |-> B[r]]

\* SELECT product_id FROM "Wish_List" WHERE wishlist_name = %s AND product_id = %s; fetchone()
HasItem(d, w, p) == \E r \in DOMAIN d.Wish_List : Matches(r, w, p)

\* The REFERENCES clauses of Wish_List, when the store enforces them: an insert is
\* refused unless the wishlist and the product exist.
InsertRefused(d, w, p) ==
    fk_enforced /\ (~BagIn(w, d.List_Tracker) \/ p \notin ProductIds)

\* ... and a List_Tracker row that Wish_List rows reference cannot be deleted.
DeleteRefused(d, w) == fk_enforced /\ \E r \in DOMAIN d.Wish_List : r.wishlist_name = w

\* What one pass of a menu loop leaves behind.
Outcome(d, m, text, shown) == [db |-> d, menu |-> m, msg |-> text, prompts |-> shown]

\* the handler printed text and the loop goes on in menu m
Say(d, m, text, shown) == Outcome(d, m, text, shown)

\* an uncaught psycopg error ends the process; nothing of the statement is kept
Raise(d, error, shown) == Outcome(d, "crashed", error, shown)

-----------------------------------------------------------------------------
(* Wishlist registry *)

\* createList as it would run without its "already exists" lookup; the
\* unique-name property below is expected to fail on it.
createListNoLookup(d, name) ==
    IF IsExit(Strip(name)) THEN Say(d, "main", "Operation canceled.", {})
    ELSE Say([d EXCEPT !.List_Tracker = @ (+) SetToBag({name})], "main",
             "Wishlist '{wishlist_name}' added successfully.", {})

\* createList as it would run without its own cancel test, relying on the test
\* main_menu makes; the cancel-keyword property below is expected to fail on it.
createListNoCancelTest(d, name) ==
    IF BagIn(name, d.List_Tracker)
    THEN Say(d, "main", "Wishlist '{wishlist_name}' already exists.", {})
    ELSE Say([d EXCEPT !.List_Tracker = @ (+) SetToBag({name})], "main",
             "Wishlist '{wishlist_name}' added successfully.", {})

\* ListTracker.createList
createList(d, name) ==
    IF IsExit(Strip(name)) THEN Say(d, "main", "Operation canceled.", {})
    ELSE IF BagIn(name, d.List_Tracker)
         THEN Say(d, "main", "Wishlist '{wishlist_name}' already exists.", {})
         ELSE Say([d EXCEPT !.List_Tracker = @ (+) SetToBag({name})], "main",
                  "Wishlist '{wishlist_name}' added successfully.", {})

\* The suggestions as they would be if the comparison kept the letter case; the
\* suggestion property below is expected to fail on it.
similarCaseSensitive(d, name) ==
    { wl \in BagToSet(d.List_Tracker) : Contains(wl, name) }

\* deleteList's  similar = [wl for wl in wishlists if wishlist_name.lower() in wl.lower()],
\* the names the "Did you mean" message joins
similar(d, name) ==
    { wl \in BagToSet(d.List_Tracker) : Contains(Lower(wl), Lower(name)) }

\* deleteList as it would run if it deleted the wishlist's items first; the
\* no-cascade property below is expected to fail on it.
deleteListCascading(d, name) ==
    IF IsExit(Strip(name)) THEN Say(d, "main", "Operation canceled.", {})
    ELSE IF ~BagIn(name, d.List_Tracker)
         THEN IF similar(d, name) # {}
              THEN Say(d, "main",
                       "Wishlist '{wishlist_name}' does not exist. Did you mean: {similar}?", {})
              ELSE Say(d, "main", "Wishlist '{wishlist_name}' does not exist.", {})
         ELSE Say([d EXCEPT !.List_Tracker = DeleteWhere(@, {name}),
                            !.Wish_List = DeleteWhere(@, { r \in DOMAIN @ : r.wishlist_name = name })],
                  "main", "Wishlist '{wishlist_name}' removed successfully.", {})

\* ListTracker.deleteList
deleteList(d, name) ==
    IF IsExit(Strip(name)) THEN Say(d, "main", "Operation canceled.", {})
    ELSE IF ~BagIn(name, d.List_Tracker)
         THEN IF similar(d, name) # {}
              THEN Say(d, "main",
                       "Wishlist '{wishlist_name}' does not exist. Did you mean: {similar}?", {})
              ELSE Say(d, "main", "Wishlist '{wishlist_name}' does not exist.", {})
         ELSE IF DeleteRefused(d, name) THEN Raise(d, "ForeignKeyViolation", {})
         ELSE Say([d EXCEPT !.List_Tracker = DeleteWhere(@, {name})], "main",
                  "Wishlist '{wishlist_name}' removed successfully.", {})

\* main_menu, choice "2": the prompt, then createList
MainAddResult(d, name_in) ==
    LET name == Strip(name_in)
    IN  IF IsExit(name) THEN Say(d, "main", "Operation canceled.", {"wishlist name"})
        ELSE [createList(d, name) EXCEPT !.prompts = {"wishlist name"}]

\* main_menu, choice "3": the listing, the prompt, then deleteList
MainRemoveResult(d, name_in) ==
    LET name == Strip(name_in)
    IN  IF BagToSet(d.List_Tracker) = {}
        THEN Say(d, "main", "No wishlists available to remove.", {})
        ELSE IF IsExit(name) THEN Say(d, "main", "Operation canceled.", {"wishlist name"})
        ELSE [deleteList(d, name) EXCEPT !.prompts = {"wishlist name"}]

\* main_menu, choice "4": the prompt, then viewList up to its loop; viewList makes
\* the cancel test a second time, on the name stripped again
MainViewResult(d, name_in) ==
    LET name == Strip(name_in)
    IN  IF IsExit(name) THEN Say(d, "main", "Operation canceled.", {"wishlist name"})
        ELSE IF IsExit(Strip(name)) THEN Say(d, "main", "Operation canceled.", {"wishlist name"})
        ELSE IF ~BagIn(name, d.List_Tracker)
             THEN Say(d, "main", "Wishlist '{wishlist_name}' does not exist.", {"wishlist name"})
        ELSE Say(d, "detail", "", {"wishlist name"})

-----------------------------------------------------------------------------
(* Wishlist item editor: one pass of viewList's loop per operation, over the *)
(* wishlist w the loop was entered with                                       *)

\* The listing as it would be without the WHERE wl.wishlist_name = %s clause; the
\* end-to-end property below is expected to fail on it.
fetch_itemsOfAllWishlists(d, w) ==
    LET rows == { r \in DOMAIN d.Wish_List : r.product_id \in ProductIds }
        name(pid) == (CHOOSE p \in Products : p.product_id = pid).product_name
        item(r) == <<r.product_id, name(r.product_id), r.number, r.owned>>
    IN  [t \in { item(r) : r \in rows } |->
            SumCopies(d.Wish_List, { r \in rows : item(r) = t })]

\* the rows the nested fetch_items lists: Wish_List JOIN Products, for wishlist w
fetch_items(d, w) ==
    LET rows == { r \in DOMAIN d.Wish_List :
                    r.wishlist_name = w /\ r.product_id \in ProductIds }
        name(pid) == (CHOOSE p \in Products : p.product_id = pid).product_name
        item(r) == <<r.product_id, name(r.product_id), r.number, r.owned>>
    IN  [t \in { item(r) : r \in rows } |->
            SumCopies(d.Wish_List, { r \in rows : item(r) = t })]

\* Add by ID as it would run without its "already in the wishlist" lookup; the
\* duplicate-row properties below are expected to fail on it.
AddByIdNoDuplicateCheck(d, w, id_in, quantity_in) ==
    LET product_id == Strip(id_in)
        quantity == Strip(quantity_in)
        p == SqlInt(TextParam(product_id))
    IN  IF IsExit(product_id) THEN Say(d, "detail", "Operation canceled.", {"product ID"})
        ELSE IF p = <<>> THEN Raise(d, "InvalidTextRepresentation", {"product ID"})
        ELSE IF IsExit(quantity)
             THEN Say(d, "detail", "Operation canceled.", {"product ID", "quantity"})
        ELSE IF PyInt(quantity) = <<>>
             THEN Say(d, "detail", "Invalid quantity. Please enter a number.",
                      {"product ID", "quantity"})
        ELSE IF InsertRefused(d, w, p[1])
             THEN Raise(d, "ForeignKeyViolation", {"product ID", "quantity"})
        ELSE Say([d EXCEPT !.Wish_List =
                     @ (+) SetToBag({Row(w, p[1], PyInt(quantity)[1], FALSE)})],
                 "detail", "Item added successfully.", {"product ID", "quantity"})

\* choice "2": add item by ID
AddByIdResult(d, w, id_in, quantity_in) ==
    LET product_id == Strip(id_in)
        quantity == Strip(quantity_in)
        p == SqlInt(TextParam(product_id))
    IN  IF IsExit(product_id) THEN Say(d, "detail", "Operation canceled.", {"product ID"})
        ELSE IF p = <<>> THEN Raise(d, "InvalidTextRepresentation", {"product ID"})
        ELSE IF HasItem(d, w, p[1])
             THEN Say(d, "detail", "You already have this product in your wishlist.",
                      {"product ID"})
        ELSE IF IsExit(quantity)
             THEN Say(d, "detail", "Operation canceled.", {"product ID", "quantity"})
        ELSE IF PyInt(quantity) = <<>>
             THEN Say(d, "detail", "Invalid quantity. Please enter a number.",
                      {"product ID", "quantity"})
        ELSE IF InsertRefused(d, w, p[1])
             THEN Raise(d, "ForeignKeyViolation", {"product ID", "quantity"})
        ELSE Say([d EXCEPT !.Wish_List =
                     @ (+) SetToBag({Row(w, p[1], PyInt(quantity)[1], FALSE)})],
                 "detail", "Item added successfully.", {"product ID", "quantity"})

\* SELECT product_id, product_name FROM "Products" WHERE product_name ILIKE '%name%'
SelectByName(product_name) ==
    { m \in Products : ILike(m.product_name, <<"%">> \o product_name \o <<"%">>) }

\* Products is read-only, so the query's result depends on the text alone: the
\* results for the texts the user may type, computed once
MatchTable == [n \in { Strip(x) : x \in ProductNameInputs } |-> SelectByName(n)]

NameMatches(product_name) ==
    IF product_name \in DOMAIN MatchTable THEN MatchTable[product_name]
    ELSE SelectByName(product_name)

\* Add by name as it would run if an ID typed after several matches had to be one
\* of the listed matches; the disambiguation property below is expected to fail on it.
AddByNameListedOnly(d, w, name_in, id_in, quantity_in) ==
    LET product_name == Strip(name_in)
        matches == NameMatches(product_name)
        one == Cardinality(matches) = 1
        product_id == IF one THEN IntParam((CHOOSE m \in matches : TRUE).product_id)
                      ELSE TextParam(Strip(id_in))
        asked == IF one THEN {"product name"} ELSE {"product name", "matching ID"}
        quantity == Strip(quantity_in)
        p == SqlInt(product_id)
    IN  IF IsExit(product_name) THEN Say(d, "detail", "Operation canceled.", {"product name"})
        ELSE IF matches = {}
             THEN Say(d, "detail", "No matching products found.", {"product name"})
        ELSE IF p = <<>> THEN Raise(d, "InvalidTextRepresentation", asked)
        ELSE IF p[1] \notin { m.product_id : m \in matches }
             THEN Say(d, "detail", "No matching products found.", asked)
        ELSE IF HasItem(d, w, p[1])
             THEN Say(d, "detail", "You already have this product in your wishlist.", asked)
        ELSE IF IsExit(quantity)
             THEN Say(d, "detail", "Operation canceled.", asked \cup {"quantity"})
        ELSE IF PyInt(quantity) = <<>>
             THEN Say(d, "detail", "Invalid quantity. Please enter a number.",
                      asked \cup {"quantity"})
        ELSE IF InsertRefused(d, w, p[1])
             THEN Raise(d, "ForeignKeyViolation", asked \cup {"quantity"})
        ELSE Say([d EXCEPT !.Wish_List =
                     @ (+) SetToBag({Row(w, p[1], PyInt(quantity)[1], FALSE)})],
                 "detail", "Item added successfully.", asked \cup {"quantity"})

\* Add by name as it would run if a single match were taken only when it matches
\* the whole name and the ID were asked for otherwise; the equivalence with add by
\* ID below is expected to fail on it.
AddByNameWholeNameOnly(d, w, name_in, id_in, quantity_in) ==
    LET product_name == Strip(name_in)
        matches == NameMatches(product_name)
        one == /\ Cardinality(matches) = 1
               /\ \A m \in matches : Lower(m.product_name) = Lower(product_name)
        product_id == IF one THEN IntParam((CHOOSE m \in matches : TRUE).product_id)
                      ELSE TextParam(Strip(id_in))
        asked == IF one THEN {"product name"} ELSE {"product name", "matching ID"}
        quantity == Strip(quantity_in)
        p == SqlInt(product_id)
    IN  IF IsExit(product_name) THEN Say(d, "detail", "Operation canceled.", {"product name"})
        ELSE IF matches = {}
             THEN Say(d, "detail", "No matching products found.", {"product name"})
        ELSE IF p = <<>> THEN Raise(d, "InvalidTextRepresentation", asked)
        ELSE IF HasItem(d, w, p[1])
             THEN Say(d, "detail", "You already have this product in your wishlist.", asked)
        ELSE IF IsExit(quantity)
             THEN Say(d, "detail", "Operation canceled.", asked \cup {"quantity"})
        ELSE IF PyInt(quantity) = <<>>
             THEN Say(d, "detail", "Invalid quantity. Please enter a number.",
                      asked \cup {"quantity"})
        ELSE IF InsertRefused(d, w, p[1])
             THEN Raise(d, "ForeignKeyViolation", asked \cup {"quantity"})
        ELSE Say([d EXCEPT !.Wish_List =
                     @ (+) SetToBag({Row(w, p[1], PyInt(quantity)[1], FALSE)})],
                 "detail", "Item added successfully.", asked \cup {"quantity"})

\* choice "3": add item by name
AddByNameResult(d, w, name_in, id_in, quantity_in) ==
    LET product_name == Strip(name_in)
        matches == NameMatches(product_name)
        one == Cardinality(matches) = 1
        product_id == IF one THEN IntParam((CHOOSE m \in matches : TRUE).product_id)
                      ELSE TextParam(Strip(id_in))
        asked == IF one THEN {"product name"} ELSE {"product name", "matching ID"}
        quantity == Strip(quantity_in)
        p == SqlInt(product_id)
    IN  IF IsExit(product_name) THEN Say(d, "detail", "Operation canceled.", {"product name"})
        ELSE IF matches = {}
             THEN Say(d, "detail", "No matching products found.", {"product name"})
        ELSE IF p = <<>> THEN Raise(d, "InvalidTextRepresentation", asked)
        ELSE IF HasItem(d, w, p[1])
             THEN Say(d, "detail", "You already have this product in your wishlist.", asked)
        ELSE IF IsExit(quantity)
             THEN Say(d, "detail", "Operation canceled.", asked \cup {"quantity"})
        ELSE IF PyInt(quantity) = <<>>
             THEN Say(d, "detail", "Invalid quantity. Please enter a number.",
                      asked \cup {"quantity"})
        ELSE IF InsertRefused(d, w, p[1])
             THEN Raise(d, "ForeignKeyViolation", asked \cup {"quantity"})
        ELSE Say([d EXCEPT !.Wish_List =
                     @ (+) SetToBag({Row(w, p[1], PyInt(quantity)[1], FALSE)})],
                 "detail", "Item added successfully.", asked \cup {"quantity"})

\* Remove as it would run without  wishlist_name = %s  in its DELETE; the
\* one-row property below is expected to fail on it.
RemoveFromEveryWishlist(d, w, id_in) ==
    LET product_id == Strip(id_in)
        p == SqlInt(TextParam(product_id))
    IN  IF IsExit(product_id) THEN Say(d, "detail", "Operation canceled.", {"product ID"})
        ELSE IF p = <<>> THEN Raise(d, "InvalidTextRepresentation", {"product ID"})
        ELSE IF ~HasItem(d, w, p[1])
             THEN Say(d, "detail",
                      "Product ID {product_id} does not exist in the wishlist '{wishlist_name}'.",
                      {"product ID"})
        ELSE Say([d EXCEPT !.Wish_List =
                     DeleteWhere(@, { r \in DOMAIN @ : r.product_id = p[1] })],
                 "detail", "Item removed successfully.", {"product ID"})

\* Remove as it would run if it also deleted the product itself; the read-only
\* property below is expected to fail on it.
RemoveAlsoFromProducts(d, w, id_in) ==
    LET product_id == Strip(id_in)
        p == SqlInt(TextParam(product_id))
    IN  IF IsExit(product_id) THEN Say(d, "detail", "Operation canceled.", {"product ID"})
        ELSE IF p = <<>> THEN Raise(d, "InvalidTextRepresentation", {"product ID"})
        ELSE IF ~HasItem(d, w, p[1])
             THEN Say(d, "detail",
                      "Product ID {product_id} does not exist in the wishlist '{wishlist_name}'.",
                      {"product ID"})
        ELSE Say([d EXCEPT !.Wish_List =
                     DeleteWhere(@, { r \in DOMAIN @ : Matches(r, w, p[1]) }),
                            !.Products = { m \in @ : m.product_id # p[1] }],
                 "detail", "Item removed successfully.", {"product ID"})

\* choice "4": remove item
RemoveResult(d, w, id_in) ==
    LET product_id == Strip(id_in)
        p == SqlInt(TextParam(product_id))
    IN  IF IsExit(product_id) THEN Say(d, "detail", "Operation canceled.", {"product ID"})
        ELSE IF p = <<>> THEN Raise(d, "InvalidTextRepresentation", {"product ID"})
        ELSE IF ~HasItem(d, w, p[1])
             THEN Say(d, "detail",
                      "Product ID {product_id} does not exist in the wishlist '{wishlist_name}'.",
                      {"product ID"})
        ELSE Say([d EXCEPT !.Wish_List =
                     DeleteWhere(@, { r \in DOMAIN @ : Matches(r, w, p[1]) })],
                 "detail", "Item removed successfully.", {"product ID"})

\* Modify quantity as it would run if a text that is no integer were stored as 0
\* instead of being refused; the non-integer property below is expected to fail on it.
ModifyQuantityInvalidAsZero(d, w, id_in, quantity_in) ==
    LET product_id == Strip(id_in)
        quantity == Strip(quantity_in)
        p == SqlInt(TextParam(product_id))
        n == IF PyInt(quantity) = <<>> THEN 0 ELSE PyInt(quantity)[1]
    IN  IF IsExit(product_id) THEN Say(d, "detail", "Operation canceled.", {"product ID"})
        ELSE IF p = <<>> THEN Raise(d, "InvalidTextRepresentation", {"product ID"})
        ELSE IF ~HasItem(d, w, p[1])
             THEN Say(d, "detail",
                      "Product ID {product_id} does not exist in the wishlist '{wishlist_name}'.",
                      {"product ID"})
        ELSE IF IsExit(quantity)
             THEN Say(d, "detail", "Operation canceled.", {"product ID", "quantity"})
        ELSE Say([d EXCEPT !.Wish_List =
                     UpdateBag(@, [r \in DOMAIN @ |->
                                     IF Matches(r, w, p[1])
                                     THEN [r EXCEPT !.number = n] ELSE r])],
                 "detail", "Quantity updated successfully.", {"product ID", "quantity"})

\* choice "5": modify quantity
ModifyQuantityResult(d, w, id_in, quantity_in) ==
    LET product_id == Strip(id_in)
        quantity == Strip(quantity_in)
        p == SqlInt(TextParam(product_id))
    IN  IF IsExit(product_id) THEN Say(d, "detail", "Operation canceled.", {"product ID"})
        ELSE IF p = <<>> THEN Raise(d, "InvalidTextRepresentation", {"product ID"})
        ELSE IF ~HasItem(d, w, p[1])
             THEN Say(d, "detail",
                      "Product ID {product_id} does not exist in the wishlist '{wishlist_name}'.",
                      {"product ID"})
        ELSE IF IsExit(quantity)
             THEN Say(d, "detail", "Operation canceled.", {"product ID", "quantity"})
        ELSE IF PyInt(quantity) = <<>>
             THEN Say(d, "detail", "Invalid quantity. Please enter a number.",
                      {"product ID", "quantity"})
        ELSE Say([d EXCEPT !.Wish_List =
                     UpdateBag(@, [r \in DOMAIN @ |->
                                     IF Matches(r, w, p[1])
                                     THEN [r EXCEPT !.number = PyInt(quantity)[1]] ELSE r])],
                 "detail", "Quantity updated successfully.", {"product ID", "quantity"})

\* Modify ownership as it would run without  wishlist_name = %s  in its UPDATE; the
\* missing-row property below is expected to fail on it.
ModifyOwnershipInEveryWishlist(d, w, id_in, owned_in) ==
    LET product_id == Strip(id_in)
        answer == Lower(Strip(owned_in))
        owned == (answer = <<"y","e","s">>)
        p == SqlInt(TextParam(product_id))
    IN  IF IsExit(product_id) THEN Say(d, "detail", "Operation canceled.", {"product ID"})
        ELSE IF answer = Exit
             THEN Say(d, "detail", "Operation canceled.", {"product ID", "owned"})
        ELSE IF p = <<>> THEN Raise(d, "InvalidTextRepresentation", {"product ID", "owned"})
        ELSE Say([d EXCEPT !.Wish_List =
                     UpdateBag(@, [r \in DOMAIN @ |->
                                     IF r.product_id = p[1]
                                     THEN [r EXCEPT !.owned = owned] ELSE r])],
                 "detail", "Ownership status updated successfully.", {"product ID", "owned"})

\* Modify ownership as it would run if every answer but "no" counted as owned; the
\* ownership property below is expected to fail on it.
ModifyOwnershipUnlessNo(d, w, id_in, owned_in) ==
    LET product_id == Strip(id_in)
        answer == Lower(Strip(owned_in))
        owned == (answer # <<"n","o">>)
        p == SqlInt(TextParam(product_id))
    IN  IF IsExit(product_id) THEN Say(d, "detail", "Operation canceled.", {"product ID"})
        ELSE IF answer = Exit
             THEN Say(d, "detail", "Operation canceled.", {"product ID", "owned"})
        ELSE IF p = <<>> THEN Raise(d, "InvalidTextRepresentation", {"product ID", "owned"})
        ELSE Say([d EXCEPT !.Wish_List =
                     UpdateBag(@, [r \in DOMAIN @ |->
                                     IF Matches(r, w, p[1])
                                     THEN [r EXCEPT !.owned = owned] ELSE r])],
                 "detail", "Ownership status updated successfully.", {"product ID", "owned"})

\* choice "6": modify ownership status
ModifyOwnershipResult(d, w, id_in, owned_in) ==
    LET product_id == Strip(id_in)
        answer == Lower(Strip(owned_in))
        owned == (answer = <<"y","e","s">>)
        p == SqlInt(TextParam(product_id))
    IN  IF IsExit(product_id) THEN Say(d, "detail", "Operation canceled.", {"product ID"})
        ELSE IF answer = Exit
             THEN Say(d, "detail", "Operation canceled.", {"product ID", "owned"})
        ELSE IF p = <<>> THEN Raise(d, "InvalidTextRepresentation", {"product ID", "owned"})
        ELSE Say([d EXCEPT !.Wish_List =
                     UpdateBag(@, [r \in DOMAIN @ |->
                                     IF Matches(r, w, p[1])
                                     THEN [r EXCEPT !.owned = owned] ELSE r])],
                 "detail", "Ownership status updated successfully.", {"product ID", "owned"})

-----------------------------------------------------------------------------
(* Product browser *)

\* the nested fetch_products_by_category: Products JOIN Categories, filtered when
\* the argument is truthy
fetch_products_by_category(category_id) ==
    LET joined == { <<p, c>> \in Products \X Categories : p.category_id = c.category_id }
        shown == IF category_id # <<>> /\ category_id[1] # 0
                 THEN { pc \in joined : pc[1].category_id = category_id[1] }
                 ELSE joined
    IN  { <<pc[1].product_id, pc[1].product_name, pc[2].category_name>> : pc \in shown }

\* The category prompt as it would run without the test that the ID is one of
\* Categories; the selector property below is expected to fail on it.
ChangeCategoryUnchecked(category_in) ==
    LET category_input == Lower(Strip(category_in))
        n == PyInt(category_input)
    IN  IF category_input = <<"a","l","l">> THEN [category |-> <<>>, msg |-> ""]
        ELSE IF n = <<>>
             THEN [category |-> <<>>, msg |-> "Invalid input. Showing all products."]
        ELSE [category |-> n, msg |-> ""]

\* choice "1" of the browser: the selector after the answer to "Enter category ID: "
ChangeCategory(category_in) ==
    LET category_input == Lower(Strip(category_in))
        n == PyInt(category_input)
    IN  IF category_input = <<"a","l","l">> THEN [category |-> <<>>, msg |-> ""]
        ELSE IF n = <<>>
             THEN [category |-> <<>>, msg |-> "Invalid input. Showing all products."]
        ELSE IF ~\E cat \in Categories : cat.category_id = n[1]
             THEN [category |-> <<>>, msg |-> "Invalid category. Showing all products."]
        ELSE [category |-> n, msg |-> ""]

-----------------------------------------------------------------------------
(* The menu loops *)

\* __main__: attempts = 3
Attempts == 3

\* get_password: attempts = 3
PasswordAttempts == 3

\* a password: empty, one the store rejects, the one it accepts
PasswordInputs == { <<>>, <<" ">>, <<"b","a","d">>, <<"p","w">> }

\* get_connection: psycopg.connect succeeds
Connects(password) == password = <<"p","w">>

Init ==
    /\ List_Tracker = EmptyBag
    /\ Wish_List = EmptyBag
    /\ menu = "login"
    /\ wishlist_name = <<>>
    /\ current_category = <<>>
    /\ op = "start"
    /\ msg = ""
    /\ fk_enforced \in BOOLEAN
    /\ attempts = Attempts
    /\ password_attempts = PasswordAttempts
    /\ prompted = 0
    /\ products = Products
    /\ categories = Categories
    /\ conn = FALSE

\* get_password: an empty password; after the last one the process exits
PasswordEmpty(password) ==
    /\ menu = "login"
    /\ password = <<>>
    /\ prompted' = prompted + 1
    /\ password_attempts' = password_attempts - 1
    /\ op' = "PasswordEmpty"
    /\ IF password_attempts - 1 > 0
       THEN /\ menu' = "login"
            /\ msg' = "Invalid input. You have {attempts} attempts remaining."
       ELSE /\ menu' = "exited"
            /\ msg' = "Maximum attempts exceeded. Press any key to exit program..."
    /\ UNCHANGED <<List_Tracker, Wish_List, wishlist_name, current_category, fk_enforced,
                   attempts, products, categories, conn>>

\* the failed connection as it would end if __main__ lacked its  if not conn: exit():
\* after the last failure main_menu runs without a connection; the start-up
\* property below is expected to fail on it.
ConnectionFailedNoExit(password) ==
    /\ menu = "login"
    /\ password # <<>>
    /\ ~Connects(password)
    /\ prompted' = prompted + 1
    /\ attempts' = attempts - 1
    /\ password_attempts' = PasswordAttempts
    /\ op' = "ConnectionFailed"
    /\ IF attempts - 1 > 0
       THEN /\ menu' = "login"
            /\ msg' = "Connection failed. You have {attempts} attempts remaining."
       ELSE /\ menu' = "main"
            /\ msg' = "Maximum attempts exceeded. Press any key to exit program..."
    /\ UNCHANGED <<List_Tracker, Wish_List, wishlist_name, current_category, fk_enforced,
                   products, categories, conn>>

\* get_password returns a password the store rejects; __main__ counts the failure
\* and, while attempts are left, calls get_password anew
ConnectionFailed(password) ==
    /\ menu = "login"
    /\ password # <<>>
    /\ ~Connects(password)
    /\ prompted' = prompted + 1
    /\ attempts' = attempts - 1
    /\ password_attempts' = PasswordAttempts
    /\ op' = "ConnectionFailed"
    /\ IF attempts - 1 > 0
       THEN /\ menu' = "login"
            /\ msg' = "Connection failed. You have {attempts} attempts remaining."
       ELSE /\ menu' = "exited"
            /\ msg' = "Maximum attempts exceeded. Press any key to exit program..."
    /\ UNCHANGED <<List_Tracker, Wish_List, wishlist_name, current_category, fk_enforced,
                   products, categories, conn>>

\* get_password returns a password the store accepts: main_menu(conn) runs; from
\* here on nothing reads the counters of the start-up, which are cleared
Connected(password) ==
    /\ menu = "login"
    /\ password # <<>>
    /\ Connects(password)
    /\ menu' = "main"
    /\ op' = "Connected"
    /\ msg' = ""
    /\ attempts' = 0
    /\ password_attempts' = 0
    /\ prompted' = 0
    /\ conn' = TRUE
    /\ UNCHANGED <<List_Tracker, Wish_List, wishlist_name, current_category, fk_enforced,
                   products, categories>>

\* the pass of operation name ends as the outcome o says; the tables stay within
\* the model's bounds
Apply(name, o) ==
    /\ BagCardinality(o.db.List_Tracker) <= MaxLists
    /\ BagCardinality(o.db.Wish_List) <= MaxRows
    /\ List_Tracker' = o.db.List_Tracker
    /\ Wish_List' = o.db.Wish_List
    /\ products' = o.db.Products
    /\ categories' = o.db.Categories
    /\ menu' = o.menu
    /\ op' = name
    /\ msg' = o.msg
    /\ UNCHANGED <<fk_enforced, startup>>

\* main_menu, choice "1": view all wishlists
MainViewAll(choice) ==
    /\ menu = "main"
    /\ choice = <<"1">>
    /\ Apply("MainViewAll",
             Say(DB, "main", IF BagToSet(List_Tracker) # {} THEN "Available Wishlists:"
                             ELSE "No wishlists found.", {}))
    /\ UNCHANGED <<wishlist_name, current_category>>

\* main_menu, choice "2": add wishlist
MainAdd(choice, name_in) ==
    /\ menu = "main"
    /\ choice = <<"2">>
    /\ Apply("MainAdd", MainAddResult(DB, name_in))
    /\ UNCHANGED <<wishlist_name, current_category>>

\* main_menu, choice "3": remove wishlist
MainRemove(choice, name_in) ==
    /\ menu = "main"
    /\ choice = <<"3">>
    /\ Apply("MainRemove", MainRemoveResult(DB, name_in))
    /\ UNCHANGED <<wishlist_name, current_category>>

\* main_menu, choice "4": view wishlist items
MainView(choice, name_in) ==
    /\ menu = "main"
    /\ choice = <<"4">>
    /\ Apply("MainView", MainViewResult(DB, name_in))
    /\ wishlist_name' = IF MainViewResult(DB, name_in).menu = "detail"
                        THEN <<Strip(name_in)>> ELSE <<>>
    /\ UNCHANGED current_category

\* main_menu, choice "5" or "exit"
MainExit(choice) ==
    /\ menu = "main"
    /\ choice \in { <<"5">>, Exit }
    /\ Apply("MainExit", Say(DB, "exited", "Goodbye!", {}))
    /\ UNCHANGED <<wishlist_name, current_category>>

\* main_menu, any other choice
MainInvalid(choice) ==
    /\ menu = "main"
    /\ choice \notin { <<"1">>, <<"2">>, <<"3">>, <<"4">>, <<"5">>, Exit }
    /\ Apply("MainInvalid", Say(DB, "main", "Invalid choice. Please try again.", {}))
    /\ UNCHANGED <<wishlist_name, current_category>>

\* viewList, choice "1": view products; get_product_details up to its loop
ViewProducts(choice) ==
    /\ menu = "detail"
    /\ choice = <<"1">>
    /\ Apply("ViewProducts", Say(DB, "browser", "", {}))
    /\ current_category' = <<>>
    /\ UNCHANGED wishlist_name

\* viewList, choice "2"
AddById(choice, id_in, quantity_in) ==
    /\ menu = "detail"
    /\ choice = <<"2">>
    /\ Apply("AddById", AddByIdResult(DB, wishlist_name[1], id_in, quantity_in))
    /\ UNCHANGED <<wishlist_name, current_category>>

\* viewList, choice "3"
AddByName(choice, name_in, id_in, quantity_in) ==
    /\ menu = "detail"
    /\ choice = <<"3">>
    /\ Apply("AddByName", AddByNameResult(DB, wishlist_name[1], name_in, id_in, quantity_in))
    /\ UNCHANGED <<wishlist_name, current_category>>

\* viewList, choice "4"
Remove(choice, id_in) ==
    /\ menu = "detail"
    /\ choice = <<"4">>
    /\ Apply("Remove", RemoveResult(DB, wishlist_name[1], id_in))
    /\ UNCHANGED <<wishlist_name, current_category>>

\* viewList, choice "5"
ModifyQuantity(choice, id_in, quantity_in) ==
    /\ menu = "detail"
    /\ choice = <<"5">>
    /\ Apply("ModifyQuantity", ModifyQuantityResult(DB, wishlist_name[1], id_in, quantity_in))
    /\ UNCHANGED <<wishlist_name, current_category>>

\* viewList, choice "6"
ModifyOwnership(choice, id_in, owned_in) ==
    /\ menu = "detail"
    /\ choice = <<"6">>
    /\ Apply("ModifyOwnership", ModifyOwnershipResult(DB, wishlist_name[1], id_in, owned_in))
    /\ UNCHANGED <<wishlist_name, current_category>>

\* viewList, choice "7": back to the main menu
Back(choice) ==
    /\ menu = "detail"
    /\ choice = <<"7">>
    /\ Apply("Back", Say(DB, "main", "", {}))
    /\ wishlist_name' = <<>>
    /\ UNCHANGED current_category

\* viewList, any other choice
DetailInvalid(choice) ==
    /\ menu = "detail"
    /\ choice \notin { <<"1">>, <<"2">>, <<"3">>, <<"4">>, <<"5">>, <<"6">>, <<"7">> }
    /\ Apply("DetailInvalid", Say(DB, "detail", "Invalid choice. Please try again.", {}))
    /\ UNCHANGED <<wishlist_name, current_category>>

\* get_product_details, choice "1": change category
BrowserChange(choice, category_in) ==
    /\ menu = "browser"
    /\ Strip(choice) = <<"1">>
    /\ Apply("BrowserChange", Say(DB, "browser", ChangeCategory(category_in).msg, {"category ID"}))
    /\ current_category' = ChangeCategory(category_in).category
    /\ UNCHANGED wishlist_name

\* get_product_details, choice "2": return to the wishlist menu
BrowserReturn(choice) ==
    /\ menu = "browser"
    /\ Strip(choice) = <<"2">>
    /\ Apply("BrowserReturn", Say(DB, "detail", "", {}))
    /\ current_category' = <<>>
    /\ UNCHANGED wishlist_name

\* The browser's else branch as it would run if it fell back to all products; the
\* invalid-choice property below is expected to fail on it.
BrowserInvalidShowsAll(choice) ==
    /\ menu = "browser"
    /\ Strip(choice) \notin { <<"1">>, <<"2">> }
    /\ Apply("BrowserInvalid", Say(DB, "browser", "Invalid choice. Please try again.", {}))
    /\ current_category' = <<>>
    /\ UNCHANGED wishlist_name

\* get_product_details, any other choice
BrowserInvalid(choice) ==
    /\ menu = "browser"
    /\ Strip(choice) \notin { <<"1">>, <<"2">> }
    /\ Apply("BrowserInvalid", Say(DB, "browser", "Invalid choice. Please try again.", {}))
    /\ UNCHANGED <<wishlist_name, current_category>>

\* A text is typed only at a prompt that is shown: the answers a prompt may get,
\* given the outcome o of the pass when that prompt gets no answer.
Answers(o, prompt, inputs) ==
    IF prompt \in o.prompts THEN inputs ELSE {NotAsked}

Next ==
    \/ \E password \in PasswordInputs : PasswordEmpty(password)
    \/ \E password \in PasswordInputs : ConnectionFailed(password)
    \/ \E password \in PasswordInputs : Connected(password)
    \/ \E choice \in ChoiceInputs : MainViewAll(choice)
    \/ \E choice \in ChoiceInputs, name_in \in ListNameInputs : MainAdd(choice, name_in)
    \/ \E name_in \in Answers(MainRemoveResult(DB, NotAsked), "wishlist name", ListNameInputs) :
       \E choice \in ChoiceInputs : MainRemove(choice, name_in)
    \/ \E choice \in ChoiceInputs, name_in \in ListNameInputs : MainView(choice, name_in)
    \/ \E choice \in ChoiceInputs : MainExit(choice)
    \/ \E choice \in ChoiceInputs : MainInvalid(choice)
    \/ \E choice \in ChoiceInputs : ViewProducts(choice)
    \/ /\ menu = "detail"
       /\ \E id_in \in IdInputs :
          \E quantity_in \in Answers(AddByIdResult(DB, wishlist_name[1], id_in, NotAsked),
                                     "quantity", QuantityInputs) :
          \E choice \in ChoiceInputs : AddById(choice, id_in, quantity_in)
    \/ /\ menu = "detail"
       /\ \E name_in \in ProductNameInputs :
          \E id_in \in Answers(AddByNameResult(DB, wishlist_name[1], name_in, NotAsked, NotAsked),
                               "matching ID", IdInputs) :
          \E quantity_in \in Answers(AddByNameResult(DB, wishlist_name[1], name_in, id_in, NotAsked),
                                     "quantity", QuantityInputs) :
          \E choice \in ChoiceInputs : AddByName(choice, name_in, id_in, quantity_in)
    \/ \E choice \in ChoiceInputs, id_in \in IdInputs : Remove(choice, id_in)
    \/ /\ menu = "detail"
       /\ \E id_in \in IdInputs :
          \E quantity_in \in Answers(ModifyQuantityResult(DB, wishlist_name[1], id_in, NotAsked),
                                     "quantity", QuantityInputs) :
          \E choice \in ChoiceInputs : ModifyQuantity(choice, id_in, quantity_in)
    \/ /\ menu = "detail"
       /\ \E id_in \in IdInputs :
          \E owned_in \in Answers(ModifyOwnershipResult(DB, wishlist_name[1], id_in, NotAsked),
                                  "owned", OwnedInputs) :
          \E choice \in ChoiceInputs : ModifyOwnership(choice, id_in, owned_in)
    \/ \E choice \in ChoiceInputs : Back(choice)
    \/ \E choice \in ChoiceInputs : DetailInvalid(choice)
    \/ \E choice \in ChoiceInputs, category_in \in CategoryInputs :
          BrowserChange(choice, category_in)
    \/ \E choice \in ChoiceInputs : BrowserReturn(choice)
    \/ \E choice \in ChoiceInputs : BrowserInvalid(choice)

Spec == Init /\ [][Next]_vars

\* one answer at "Enter your database password: ", whichever way it goes
Startup ==
    \E password \in PasswordInputs :
       PasswordEmpty(password) \/ ConnectionFailed(password) \/ Connected(password)

\* the program with a user who answers the password prompt: getpass returns once a
\* line is typed, and between two prompts __main__ and get_password only count
\* and print, so while the prompt is up a start-up step is eventually taken
SpecStartup == Spec /\ WF_vars(Startup)

-----------------------------------------------------------------------------
(* Properties *)

AlreadyInWishlist == "You already have this product in your wishlist."

\* the product an add by name goes on with: the single match, or else the ID typed
\* at "Enter the product ID of the desired match"; <<>> when there is none
ResolvedByName(name_in, id_in) ==
    LET matches == NameMatches(Strip(name_in))
    IN  IF IsExit(Strip(name_in)) \/ matches = {} THEN <<>>
        ELSE IF Cardinality(matches) = 1 THEN <<(CHOOSE m \in matches : TRUE).product_id>>
        ELSE PgInt(Strip(id_in))

\* C1: Wish_List holds at most one row per (wishlist name, product ID) pair in every
\* reachable state, and an add by ID or by name for a pair that already has a row
\* prints "You already have this product in your wishlist.", stays in the wishlist
\* menu and leaves both tables as they were.
C1_OneRowPerPair ==
    /\ \A r \in DOMAIN Wish_List :
          /\ Wish_List[r] = 1
          /\ \A r2 \in DOMAIN Wish_List :
                Matches(r2, r.wishlist_name, r.product_id) => r2 = r
    /\ menu = "detail" =>
          /\ \A id_in \in IdInputs, quantity_in \in QuantityInputs :
                LET p == PgInt(Strip(id_in))
                IN  (~IsExit(Strip(id_in)) /\ p # <<>> /\ HasItem(DB, wishlist_name[1], p[1]))
                    => AddByIdResult(DB, wishlist_name[1], id_in, quantity_in)
                         = Say(DB, "detail", AlreadyInWishlist, {"product ID"})
          /\ \A name_in \in ProductNameInputs, id_in \in IdInputs,
                quantity_in \in QuantityInputs :
                LET p == ResolvedByName(name_in, id_in)
                    o == AddByNameResult(DB, wishlist_name[1], name_in, id_in, quantity_in)
                IN  (p # <<>> /\ HasItem(DB, wishlist_name[1], p[1]))
                    => /\ o.db = DB
                       /\ o.menu = "detail"
                       /\ o.msg = AlreadyInWishlist

\* an add was rejected as a duplicate and the row it collided with is still there
C1_Witness ==
    /\ op \in {"AddById", "AddByName"}
    /\ msg = AlreadyInWishlist
    /\ \E r \in DOMAIN Wish_List : r.wishlist_name = wishlist_name[1]

\* C2: in every reachable state every Wish_List row names a wishlist that is in
\* List_Tracker and a product that is in Products, and the application's own
\* checks are what keeps it so: the store never has to refuse a statement of the
\* application for the sake of a reference.
C2_NoDanglingRow ==
    /\ \A r \in DOMAIN Wish_List :
          /\ BagIn(r.wishlist_name, List_Tracker)
          /\ r.product_id \in ProductIds
    /\ msg # "ForeignKeyViolation"

\* C3: the number of every Wish_List row is a positive integer in every reachable
\* state.
C3_QuantityPositive ==
    \A r \in DOMAIN Wish_List : r.number \in Int /\ r.number > 0

AlreadyExists == "Wishlist '{wishlist_name}' already exists."

\* C4: createList with a name that is already in List_Tracker prints "already
\* exists" and leaves List_Tracker and Wish_List as they were, also when reached
\* through the main menu's "Add Wishlist"; List_Tracker never holds a name twice.
C4_CreateExisting ==
    /\ \A name \in DOMAIN List_Tracker :
          /\ List_Tracker[name] = 1
          /\ createList(DB, name) = Say(DB, "main", AlreadyExists, {})
    /\ \A name_in \in ListNameInputs :
          BagIn(Strip(name_in), List_Tracker)
          => MainAddResult(DB, name_in) = Say(DB, "main", AlreadyExists, {"wishlist name"})

\* "Add Wishlist" was answered with a name the registry already held
C4_Witness ==
    /\ op = "MainAdd"
    /\ msg = AlreadyExists
    /\ List_Tracker # EmptyBag

\* the pass was abandoned: it is back in menu m with the store as it was
Aborted(o, m) == o.db = DB /\ o.menu = m

\* C5: at every prompt of every operation (wishlist name, product ID, product name,
\* the ID asked for after several name matches, quantity, ownership answer, category
\* ID) the answer 'exit' abandons that operation alone: control is back in the
\* enclosing menu, and the store, the current wishlist and the category selector
\* are what they were.
C5_ExitAbortsEverywhere ==
    /\ menu = "main" =>
          \A name_in \in ListNameInputs :
             IsExit(Strip(name_in)) =>
                /\ Aborted(MainAddResult(DB, name_in), "main")
                /\ Aborted(MainRemoveResult(DB, name_in), "main")
                /\ Aborted(MainViewResult(DB, name_in), "main")
    /\ menu = "detail" =>
          LET w == wishlist_name[1]
              typed(o, prompt, text) == prompt \in o.prompts /\ IsExit(Strip(text))
          IN  /\ \A id_in \in IdInputs, quantity_in \in QuantityInputs :
                    LET o == AddByIdResult(DB, w, id_in, quantity_in)
                    IN  typed(o, "product ID", id_in) \/ typed(o, "quantity", quantity_in)
                        => Aborted(o, "detail")
              /\ \A name_in \in ProductNameInputs, id_in \in IdInputs,
                    quantity_in \in QuantityInputs :
                    LET o == AddByNameResult(DB, w, name_in, id_in, quantity_in)
                    IN  \/ typed(o, "product name", name_in)
                        \/ typed(o, "matching ID", id_in)
                        \/ typed(o, "quantity", quantity_in)
                        => Aborted(o, "detail")
              /\ \A id_in \in IdInputs :
                    typed(RemoveResult(DB, w, id_in), "product ID", id_in)
                    => Aborted(RemoveResult(DB, w, id_in), "detail")
              /\ \A id_in \in IdInputs, quantity_in \in QuantityInputs :
                    LET o == ModifyQuantityResult(DB, w, id_in, quantity_in)
                    IN  typed(o, "product ID", id_in) \/ typed(o, "quantity", quantity_in)
                        => Aborted(o, "detail")
              /\ \A id_in \in IdInputs, owned_in \in OwnedInputs :
                    LET o == ModifyOwnershipResult(DB, w, id_in, owned_in)
                    IN  typed(o, "product ID", id_in) \/ typed(o, "owned", owned_in)
                        => Aborted(o, "detail")
    /\ menu = "browser" =>
          \A category_in \in CategoryInputs :
             IsExit(Strip(category_in))
             => ChangeCategory(category_in).category = current_category

\* C6: a validation failure inside a menu operation (a non-integer quantity, a
\* product ID that does not exist, a duplicate wishlist name) ends the operation
\* with a message, in the enclosing menu, with the store unchanged; in particular
\* an add by ID of a product ID that is not in Products ends so.
C6_ValidationNeverFatal ==
    /\ menu = "main" =>
          \A name_in \in ListNameInputs :
             BagIn(Strip(name_in), List_Tracker) => Aborted(MainAddResult(DB, name_in), "main")
    /\ menu = "detail" =>
          LET w == wishlist_name[1]
              number(id_in) == IF IsExit(Strip(id_in)) THEN <<>> ELSE PgInt(Strip(id_in))
              notProduct(id_in) == number(id_in) # <<>> /\ number(id_in)[1] \notin ProductIds
              notItem(id_in) == number(id_in) # <<>> /\ ~HasItem(DB, w, number(id_in)[1])
              bad(o, quantity_in) == /\ "quantity" \in o.prompts
                                     /\ ~IsExit(Strip(quantity_in))
                                     /\ PyInt(Strip(quantity_in)) = <<>>
          IN  /\ \A id_in \in IdInputs, quantity_in \in QuantityInputs :
                    LET o == AddByIdResult(DB, w, id_in, quantity_in)
                    IN  notProduct(id_in) \/ bad(o, quantity_in) => Aborted(o, "detail")
              /\ \A name_in \in ProductNameInputs, id_in \in IdInputs,
                    quantity_in \in QuantityInputs :
                    LET o == AddByNameResult(DB, w, name_in, id_in, quantity_in)
                    IN  bad(o, quantity_in) => Aborted(o, "detail")
              /\ \A id_in \in IdInputs :
                    notItem(id_in) => Aborted(RemoveResult(DB, w, id_in), "detail")
              /\ \A id_in \in IdInputs, quantity_in \in QuantityInputs :
                    LET o == ModifyQuantityResult(DB, w, id_in, quantity_in)
                    IN  notItem(id_in) \/ bad(o, quantity_in) => Aborted(o, "detail")

\* wishlist names that are not the cancel keyword
FreshNames == { n \in { Strip(x) : x \in ListNameInputs } : ~IsExit(n) }

\* quantities of either sign
SomeQuantities == { 0 - 1, 0, 2, 10 }

\* the listing with exactly the one row (p, name of p, q, owned)
OneItem(p, q, owned) ==
    SetToBag({ <<p, (CHOOSE m \in Products : m.product_id = p).product_name, q, owned>> })

\* C7: end to end, from any reachable store, for a wishlist name w that no table
\* mentions yet, a product p of Products and an integer q: "Add Wishlist" w and
\* "View Wishlist Items" w enter the wishlist menu; after add by ID (p, q) the
\* listing of w is exactly one row (p, q, Not Owned); after modify ownership
\* (p, yes) it is exactly one row (p, q, Owned); after remove (p) it is empty.
C7_EndToEnd ==
    \A w \in FreshNames, p \in ProductIds, q \in SomeQuantities :
       (~BagIn(w, List_Tracker) /\ ~\E r \in DOMAIN Wish_List : r.wishlist_name = w)
       => LET created == MainAddResult(DB, w)
              viewed == MainViewResult(created.db, w)
              added == AddByIdResult(viewed.db, w, IntToStr(p), IntToStr(q))
              owned == ModifyOwnershipResult(added.db, w, IntToStr(p), <<"y","e","s">>)
              removed == RemoveResult(owned.db, w, IntToStr(p))
          IN  /\ BagIn(w, created.db.List_Tracker)
              /\ viewed.menu = "detail" /\ viewed.db = created.db
              /\ added.menu = "detail"
              /\ fetch_items(added.db, w) = OneItem(p, q, FALSE)
              /\ owned.menu = "detail"
              /\ fetch_items(owned.db, w) = OneItem(p, q, TRUE)
              /\ removed.menu = "detail"
              /\ fetch_items(removed.db, w) = EmptyBag
              /\ removed.db = created.db

\* the run has got as far as the third step: the current wishlist lists exactly one
\* row, of a product of Products, marked Owned by the operation that just ran
C7_Witness ==
    /\ op = "ModifyOwnership"
    /\ msg = "Ownership status updated successfully."
    /\ \E r \in DOMAIN Wish_List :
          /\ r.product_id \in ProductIds
          /\ fetch_items(DB, wishlist_name[1]) = OneItem(r.product_id, r.number, TRUE)
    /\ \A r \in DOMAIN Wish_List : r.wishlist_name = wishlist_name[1]

InvalidQuantity == "Invalid quantity. Please enter a number."

\* C8: modify quantity, for a product ID that has a row in the current wishlist and
\* a quantity text that is no integer, leaves that row's number and both tables as
\* they were and goes on in the wishlist menu; unless the text is the cancel
\* keyword it prints "Invalid quantity. Please enter a number."
C8_NonIntegerQuantity ==
    menu = "detail" =>
       \A id_in \in IdInputs, quantity_in \in QuantityInputs :
          LET w == wishlist_name[1]
              p == IF IsExit(Strip(id_in)) THEN <<>> ELSE PgInt(Strip(id_in))
              o == ModifyQuantityResult(DB, w, id_in, quantity_in)
          IN  (p # <<>> /\ HasItem(DB, w, p[1]) /\ PyInt(Strip(quantity_in)) = <<>>)
              => /\ o.db = DB
                 /\ o.menu = "detail"
                 /\ "quantity" \in o.prompts
                 /\ ~IsExit(Strip(quantity_in)) => o.msg = InvalidQuantity

\* a modify quantity was refused for its quantity text, on a row that is there
C8_Witness ==
    /\ op = "ModifyQuantity"
    /\ msg = InvalidQuantity
    /\ \E r \in DOMAIN Wish_List : r.wishlist_name = wishlist_name[1]

Yes == <<"y","e","s">>

\* the table T with its row r marked owned or not owned
WithOwned(T, r, owned) ==
    DeleteWhere(T, {r}) (+) SetToBag({[r EXCEPT !.owned = owned]})

\* C9, as the code has it: for a row of the current wishlist that is not owned,
\* modify ownership with 'yes' marks exactly that row owned and then modify
\* ownership with 'no' on the same product ID gives back the store as it was; an
\* answer that, stripped and lower-cased, is 'yes' stores true, one that is 'exit'
\* cancels and stores nothing, and every other answer stores false.
C9_OwnershipRoundTrip ==
    menu = "detail" =>
       \A r \in DOMAIN Wish_List :
          r.wishlist_name = wishlist_name[1] =>
             LET w == wishlist_name[1]
                 id_in == IntToStr(r.product_id)
                 yes == ModifyOwnershipResult(DB, w, id_in, Yes)
                 no == ModifyOwnershipResult(yes.db, w, id_in, <<"n","o">>)
             IN  /\ ~r.owned =>
                       /\ yes.db = [DB EXCEPT !.Wish_List = WithOwned(@, r, TRUE)]
                       /\ no.db = DB
                       /\ yes.menu = "detail" /\ no.menu = "detail"
                 /\ \A owned_in \in OwnedInputs :
                       LET o == ModifyOwnershipResult(DB, w, id_in, owned_in)
                           answer == Lower(Strip(owned_in))
                       IN  /\ o.menu = "detail"
                           /\ o.db = IF answer = Exit THEN DB
                                     ELSE [DB EXCEPT !.Wish_List = WithOwned(@, r, answer = Yes)]

\* ownership was set back to false by the second step of the round trip
C9_Witness ==
    /\ op = "ModifyOwnership"
    /\ msg = "Ownership status updated successfully."
    /\ \E r \in DOMAIN Wish_List : r.wishlist_name = wishlist_name[1] /\ ~r.owned
    /\ \A r \in DOMAIN Wish_List : r.product_id \in ProductIds

\* C9 as stated: the round trip, and any answer other than 'yes' stores false.
C9_AnyOtherAnswerStoresFalse ==
    menu = "detail" =>
       \A r \in DOMAIN Wish_List :
          r.wishlist_name = wishlist_name[1] =>
             LET w == wishlist_name[1]
                 id_in == IntToStr(r.product_id)
                 yes == ModifyOwnershipResult(DB, w, id_in, Yes)
                 no == ModifyOwnershipResult(yes.db, w, id_in, <<"n","o">>)
             IN  /\ ~r.owned => no.db = DB
                 /\ \A owned_in \in OwnedInputs :
                       owned_in # Yes =>
                          \A r2 \in DOMAIN ModifyOwnershipResult(DB, w, id_in, owned_in).db.Wish_List :
                             Matches(r2, w, r.product_id) => ~r2.owned

\* the products whose name contains the text, letter case aside
SubstringMatches(product_name) ==
    { m \in Products : Contains(Lower(m.product_name), Lower(product_name)) }

\* what the user sees of a pass: the store it leaves, the menu it goes on in, and
\* the message that tells inserted / duplicate / bad quantity / cancelled apart
Seen(o) == [db |-> o.db, menu |-> o.menu, msg |-> o.msg]

\* C10, as the code has it: for every reachable store, the current wishlist and a
\* name text other than the cancel keyword whose query returns exactly one product
\* p, add by name with a quantity text leaves the same store, menu and message as
\* add by ID with the ID p and the same quantity text, and asks for no ID; a name
\* text that is contained in exactly one product's name is such a text, unless it
\* is the cancel keyword.
C10_ByNameAsById ==
    menu = "detail" =>
       \A name_in \in ProductNameInputs, quantity_in \in QuantityInputs :
          LET w == wishlist_name[1]
              matches == NameMatches(Strip(name_in))
          IN  /\ Cardinality(SubstringMatches(Strip(name_in))) = 1
                 => matches = SubstringMatches(Strip(name_in))
              /\ (~IsExit(Strip(name_in)) /\ Cardinality(matches) = 1) =>
                    \A m \in matches, id_in \in IdInputs \cup {NotAsked} :
                       LET o == AddByNameResult(DB, w, name_in, id_in, quantity_in)
                       IN  /\ Seen(o) = Seen(AddByIdResult(DB, w, IntToStr(m.product_id),
                                                          quantity_in))
                           /\ "matching ID" \notin o.prompts

\* an add by name that found a single product has inserted its row
C10_Witness ==
    /\ op = "AddByName"
    /\ msg = "Item added successfully."
    /\ \E r \in DOMAIN Wish_List :
          /\ r.wishlist_name = wishlist_name[1]
          /\ \E name_in \in ProductNameInputs :
                /\ ~IsExit(Strip(name_in))
                /\ SelectByName(Strip(name_in)) = { m \in Products : m.product_id = r.product_id }

\* C10 as stated: for every name text that is contained, letter case aside, in
\* exactly one product's name, add by name does what add by ID of that product does.
C10_EveryNameWithOneMatch ==
    menu = "detail" =>
       \A name_in \in ProductNameInputs, quantity_in \in QuantityInputs :
          \A m \in SubstringMatches(Strip(name_in)) :
             Cardinality(SubstringMatches(Strip(name_in))) = 1 =>
                Seen(AddByNameResult(DB, wishlist_name[1], name_in, NotAsked, quantity_in))
                  = Seen(AddByIdResult(DB, wishlist_name[1], IntToStr(m.product_id),
                                       quantity_in))

DidYouMean == "Wishlist '{wishlist_name}' does not exist. Did you mean: {similar}?"

NotFound == "Wishlist '{wishlist_name}' does not exist."

\* names to ask deleteList about: the ones typed at the prompts, the empty name, and
\* fragments of them in either letter case
DeleteNames ==
    { n \in { Strip(x) : x \in ListNameInputs } : ~IsExit(n) }
       \cup { <<>>, <<"R">>, <<"D">>, <<"r","D">>, <<"d","R">>, <<"R","d","x">> }

\* text is a run of consecutive characters of whole, letter case aside
IsFragment(text, whole) ==
    \E before, after \in 0..Len(whole) :
       /\ before + Len(text) + after = Len(whole)
       /\ \A i \in 1..Len(text) : LowerChar(text[i]) = LowerChar(whole[before + i])

\* C11: deleteList with a name that is not in List_Tracker leaves both tables as
\* they were; the names it suggests are exactly the names of List_Tracker that
\* contain the given name as a run of characters, letter case aside; it prints the
\* "Did you mean" message when there is such a name and the plain "does not exist"
\* message when there is none.
C11_DeleteSuggestions ==
    \A name \in DeleteNames :
       ~BagIn(name, List_Tracker) =>
          LET o == deleteList(DB, name)
              expected == { wl \in BagToSet(List_Tracker) : IsFragment(name, wl) }
          IN  /\ o.db = DB
              /\ o.menu = "main"
              /\ similar(DB, name) = expected
              /\ o.msg = IF expected # {} THEN DidYouMean ELSE NotFound

\* "Remove Wishlist" was answered with a name that is not there and got a suggestion
C11_Witness ==
    /\ op = "MainRemove"
    /\ msg = DidYouMean
    /\ List_Tracker # EmptyBag

\* C12: at process start the password is asked for at most 3 times in total, an
\* empty password using up one of the 3 attempts just as a rejected one does; the
\* prompt is shown only while attempts are left, and once they are used up the
\* process has ended without the main menu having been shown.
C12_ThreeAttemptsInTotal ==
    /\ prompted <= Attempts
    /\ menu = "login" => attempts > 0 /\ password_attempts > 0
    /\ op \in {"PasswordEmpty", "ConnectionFailed"} => menu \in {"login", "exited"}

\* C13: Products and Categories are read-only: in every reachable state, whatever
\* was done in the three menus, both tables hold exactly the rows they held when the
\* program started.
C13_CatalogueReadOnly ==
    /\ products = Products
    /\ categories = Categories

\* items were added and one was removed again, through the wishlist menu
C13_Witness ==
    /\ op = "Remove"
    /\ msg = "Item removed successfully."
    /\ Wish_List # EmptyBag
    /\ products = Products
    /\ categories = Categories

\* the choices each menu acts on
MainChoices == { <<"1">>, <<"2">>, <<"3">>, <<"4">>, <<"5">>, Exit }
DetailChoices == { <<"1">>, <<"2">>, <<"3">>, <<"4">>, <<"5">>, <<"6">>, <<"7">> }
BrowserChoices == { c \in ChoiceInputs : Strip(c) \in { <<"1">>, <<"2">> } }

InvalidChoice == "Invalid choice. Please try again."

\* a choice that the menu now shown does not act on can only be answered by that
\* menu's "Invalid choice" branch
C14_OnlyInvalidBranch ==
    /\ menu = "main" =>
          \A choice \in ChoiceInputs \ MainChoices :
             /\ ENABLED MainInvalid(choice)
             /\ ~ENABLED \/ MainViewAll(choice)
                         \/ \E name_in \in ListNameInputs :
                               \/ MainAdd(choice, name_in)
                               \/ MainRemove(choice, name_in)
                               \/ MainView(choice, name_in)
                         \/ MainExit(choice)
    /\ menu = "detail" =>
          \A choice \in ChoiceInputs \ DetailChoices :
             /\ ENABLED DetailInvalid(choice)
             /\ ~ENABLED \/ ViewProducts(choice)
                         \/ \E id_in \in IdInputs :
                               \/ Remove(choice, id_in)
                               \/ \E quantity_in \in QuantityInputs :
                                     \/ AddById(choice, id_in, quantity_in)
                                     \/ ModifyQuantity(choice, id_in, quantity_in)
                                     \/ \E name_in \in ProductNameInputs :
                                           AddByName(choice, name_in, id_in, quantity_in)
                               \/ \E owned_in \in OwnedInputs :
                                     ModifyOwnership(choice, id_in, owned_in)
                         \/ Back(choice)
    /\ menu = "browser" =>
          \A choice \in ChoiceInputs \ BrowserChoices :
             /\ ENABLED BrowserInvalid(choice)
             /\ ~ENABLED \/ \E category_in \in CategoryInputs : BrowserChange(choice, category_in)
                         \/ BrowserReturn(choice)

\* the "Invalid choice" branch of a menu prints its message and changes nothing else
C14_InvalidBranchFrame ==
    op' \in {"MainInvalid", "DetailInvalid", "BrowserInvalid"} =>
       /\ msg' = InvalidChoice
       /\ UNCHANGED <<List_Tracker, Wish_List, products, categories, menu, wishlist_name,
                      current_category>>

\* C14: in each of the three menus a choice that is not one the menu acts on leaves
\* the store, the current menu, the current wishlist and the category selector as
\* they were, and the same menu reads the next choice.
C14_InvalidChoice == [] C14_OnlyInvalidBranch /\ [][C14_InvalidBranchFrame]_vars

\* an invalid choice was made in the product browser while a category was selected
\* and the wishlist had items
C14_Witness ==
    /\ op = "BrowserInvalid"
    /\ menu = "browser"
    /\ current_category # <<>>
    /\ Wish_List # EmptyBag

CategoryIds == { cat.category_id : cat \in Categories }

\* C15: in the product browser the category selector is "all" when the browser is
\* entered and is always either "all" or the ID of a row of Categories; an answer
\* to "Enter category ID" that is no integer, or an integer that is no ID of
\* Categories, sets it to "all", and an ID of Categories selects that category;
\* whatever the answer, the browser goes on and no error ends the program.
C15_SelectorAllOrCategory ==
    /\ current_category = <<>> \/ (Len(current_category) = 1 /\ current_category[1] \in CategoryIds)
    /\ op = "ViewProducts" => current_category = <<>> /\ menu = "browser"
    /\ op = "BrowserChange" => menu = "browser"
    /\ \A category_in \in CategoryInputs :
          LET n == PyInt(Lower(Strip(category_in)))
              picked == ChangeCategory(category_in).category
          IN  IF n # <<>> /\ n[1] \in CategoryIds THEN picked = n ELSE picked = <<>>

\* an ID that is not in Categories was typed and the browser shows all products
C15_Witness ==
    /\ op = "BrowserChange"
    /\ msg = "Invalid category. Showing all products."
    /\ current_category = <<>>
    /\ menu = "browser"

\* the products of category c, each with its category's name
ProductsOfCategory(c) ==
    { <<m.product_id, m.product_name, cat.category_name>> :
         <<m, cat>> \in { mc \in Products \X Categories :
                            mc[1].category_id = c /\ mc[2].category_id = c } }

\* C16: the listing of the product browser, fetch_products_by_category of the
\* category selector, is every product with its category's name only when the
\* selector is None; for every ID c of Categories, 0 included, it is exactly the
\* products whose category_id is c.
C16_FilterByCategory ==
    menu = "browser" =>
       fetch_products_by_category(current_category)
          = IF current_category = <<>>
            THEN UNION { ProductsOfCategory(c) : c \in CategoryIds }
            ELSE ProductsOfCategory(current_category[1])

Removed == "Wishlist '{wishlist_name}' removed successfully."

\* C17, as the code has it: deleteList with a name that is in List_Tracker never
\* deletes or changes a Wish_List row, the rows of that wishlist included; when the
\* store accepts the DELETE exactly the one List_Tracker row of that name is gone,
\* and when the store refuses it for the rows that still name the wishlist, nothing
\* is removed and the error ends the program.
C17_DeleteListNoCascade ==
    \A name \in DOMAIN List_Tracker :
       LET o == deleteList(DB, name)
       IN  /\ o.db.Wish_List = Wish_List
           /\ IF fk_enforced /\ \E r \in DOMAIN Wish_List : r.wishlist_name = name
              THEN o.db = DB /\ o.menu = "crashed"
              ELSE /\ o.db.List_Tracker = DeleteWhere(List_Tracker, {name})
                   /\ o.menu = "main"
                   /\ o.msg = Removed

\* a wishlist was removed and rows that name it are still in Wish_List
C17_Witness ==
    /\ op = "MainRemove"
    /\ msg = Removed
    /\ \E r \in DOMAIN Wish_List : ~BagIn(r.wishlist_name, List_Tracker)

\* C17 as stated: deleteList with a name that is in List_Tracker removes exactly
\* that one List_Tracker row and leaves every Wish_List row as it was.
C17_DeleteListAlwaysRemoves ==
    \A name \in DOMAIN List_Tracker :
       deleteList(DB, name).db = [DB EXCEPT !.List_Tracker = DeleteWhere(@, {name})]

\* the integer a product ID text stands for; <<>> for the cancel keyword and for a
\* text that is no integer
IdTyped(id_in) == IF IsExit(Strip(id_in)) THEN <<>> ELSE PgInt(Strip(id_in))

NoSuchItem == "Product ID {product_id} does not exist in the wishlist '{wishlist_name}'."

\* C18: remove with a product ID that has a row in the current wishlist deletes the
\* row (current wishlist, product ID) and changes no other row, the rows of the same
\* product in other wishlists included, and no other table; with a product ID that
\* has no row in the current wishlist it prints the "does not exist" message and
\* leaves the store as it was.
C18_RemoveOneRow ==
    menu = "detail" =>
       \A id_in \in IdInputs :
          IdTyped(id_in) # <<>> =>
             LET w == wishlist_name[1]
                 p == IdTyped(id_in)[1]
                 o == RemoveResult(DB, w, id_in)
             IN  /\ o.menu = "detail"
                 /\ IF \E r \in DOMAIN Wish_List : r.wishlist_name = w /\ r.product_id = p
                    THEN /\ o.msg = "Item removed successfully."
                         /\ o.db.List_Tracker = List_Tracker
                         /\ o.db.Products = products /\ o.db.Categories = categories
                         /\ DOMAIN o.db.Wish_List =
                               { r \in DOMAIN Wish_List : ~(r.wishlist_name = w /\ r.product_id = p) }
                         /\ \A r \in DOMAIN o.db.Wish_List : o.db.Wish_List[r] = Wish_List[r]
                    ELSE /\ o.msg = NoSuchItem
                         /\ o.db = DB

\* an item was removed from the current wishlist and another wishlist still has its
\* row of a product that the current wishlist no longer has
C18_Witness ==
    /\ op = "Remove"
    /\ msg = "Item removed successfully."
    /\ \E r \in DOMAIN Wish_List :
          /\ r.wishlist_name # wishlist_name[1]
          /\ ~HasItem(DB, wishlist_name[1], r.product_id)

OwnershipUpdated == "Ownership status updated successfully."

\* C19: modify ownership for a product ID that has no row in the current wishlist,
\* answered with anything but the cancel keyword, makes no test that the row exists:
\* it prints "Ownership status updated successfully.", goes on in the wishlist menu
\* and leaves the store as it was - no row is created and no row's owned flag
\* changes, the rows of the same product in other wishlists included.
C19_OwnershipOfMissingRow ==
    menu = "detail" =>
       \A id_in \in IdInputs, owned_in \in OwnedInputs :
          LET w == wishlist_name[1]
              p == IdTyped(id_in)
          IN  (/\ p # <<>>
               /\ ~\E r \in DOMAIN Wish_List : r.wishlist_name = w /\ r.product_id = p[1]
               /\ ~IsExit(Strip(owned_in)))
              => ModifyOwnershipResult(DB, w, id_in, owned_in)
                   = Say(DB, "detail", OwnershipUpdated, {"product ID", "owned"})

\* success was reported for a wishlist that has no row at all, while another
\* wishlist has rows
C19_Witness ==
    /\ op = "ModifyOwnership"
    /\ msg = OwnershipUpdated
    /\ Wish_List # EmptyBag
    /\ \A r \in DOMAIN Wish_List : r.wishlist_name # wishlist_name[1]

\* the name texts whose query returns two or more products
AmbiguousNames ==
    { n \in ProductNameInputs : ~IsExit(Strip(n)) /\ Cardinality(NameMatches(Strip(n))) >= 2 }

\* C20, as the code has it: in add by name with two or more matching products the
\* ID typed at "Enter the product ID of the desired match" is used as typed, with no
\* test that it is one of the listed matches: for every text but the cancel keyword
\* the operation leaves the store, menu and message that add by ID with that text
\* and the same quantity text leaves; the cancel keyword is not recognised at this
\* prompt and ends the program with the store's error.
C20_DisambiguationUnchecked ==
    menu = "detail" =>
       \A name_in \in AmbiguousNames, id_in \in IdInputs, quantity_in \in QuantityInputs :
          LET w == wishlist_name[1]
              o == AddByNameResult(DB, w, name_in, id_in, quantity_in)
          IN  /\ "matching ID" \in o.prompts
              /\ IF IsExit(Strip(id_in))
                 THEN Seen(o) = Seen(Raise(DB, "InvalidTextRepresentation", {}))
                 ELSE Seen(o) = Seen(AddByIdResult(DB, w, id_in, quantity_in))

\* add by name has inserted the only row of the store, for a product of Products
\* whose name none of the search texts matches: its ID was typed at the
\* disambiguation prompt
C20_Witness ==
    /\ op = "AddByName"
    /\ msg = "Item added successfully."
    /\ AmbiguousNames # {}
    /\ \E r \in DOMAIN Wish_List :
          /\ DOMAIN Wish_List = {r}
          /\ r.product_id \in ProductIds
          /\ \A name_in \in ProductNameInputs :
                r.product_id \notin { m.product_id : m \in NameMatches(Strip(name_in)) }

\* C20 as stated: whatever is typed at the disambiguation prompt, the operation
\* proceeds exactly as add by ID with that text.
C20_ExactlyAsAddById ==
    menu = "detail" =>
       \A name_in \in AmbiguousNames, id_in \in IdInputs, quantity_in \in QuantityInputs :
          Seen(AddByNameResult(DB, wishlist_name[1], name_in, id_in, quantity_in))
             = Seen(AddByIdResult(DB, wishlist_name[1], id_in, quantity_in))

\* spellings of the cancel keyword, with and without surrounding blanks
ExitSpellings ==
    { <<"e","x","i","t">>, <<"E","X","I","T">>, <<" ","E","x","i","t">>,
      <<"e","X","i","t"," ">>, <<" ","e","x","i","t"," ">> }

\* the names of table t that are the cancel keyword once stripped, case ignored
ExitNamed(t) == { n \in BagToSet(t) : IsExit(Strip(n)) }

\* C21: the application never creates a wishlist named with the cancel keyword:
\* the registry starts with no such name and in every reachable state no
\* List_Tracker row has a name that equals 'exit' once surrounding blanks are
\* stripped and case is ignored; createList itself, handed any spelling of the
\* keyword, and "Add Wishlist", answered with any spelling, print
\* "Operation canceled." and leave the store as it was.
C21_NoListNamedExit ==
    /\ ExitNamed(List_Tracker) = {}
    /\ \A name \in ExitSpellings \cup ListNameInputs :
          /\ ExitNamed(createList(DB, name).db.List_Tracker) = {}
          /\ IsExit(Strip(name)) =>
                /\ createList(DB, name) = Say(DB, "main", "Operation canceled.", {})
                /\ Seen(MainAddResult(DB, name)) = Seen(Say(DB, "main", "Operation canceled.", {}))

\* "Add Wishlist" was answered with the cancel keyword while the registry held a
\* wishlist: the operation was cancelled and the registry kept its rows
C21_Witness ==
    /\ op = "MainAdd"
    /\ msg = "Operation canceled."
    /\ List_Tracker # EmptyBag
    /\ ExitNamed(List_Tracker) = {}

\* the most prompts a start-up can show: get_password's count anew for each of
\* __main__'s attempts
StartupBound == Attempts * PasswordAttempts

\* the prompts the start-up may still show while the password prompt is up
PromptsLeft == (attempts - 1) * PasswordAttempts + password_attempts

\* the menus main_menu(conn) and the loops it calls show
Menus == {"main", "detail", "browser"}

\* the start-up in every reachable state: the prompts shown and those that may
\* still come never exceed the bound; the prompt is up only without a connection
\* and with attempts left, and then accepts an answer; a menu is shown only with
\* an open connection; the third failed connection has ended the process
C22_StartupState ==
    /\ prompted <= StartupBound
    /\ menu = "login" =>
          /\ ~conn
          /\ attempts \in 1..Attempts
          /\ password_attempts \in 1..PasswordAttempts
          /\ prompted + PromptsLeft <= StartupBound
          /\ ENABLED Startup
    /\ menu \in Menus => conn
    /\ op = "ConnectionFailed" =>
          /\ menu \in {"login", "exited"}
          /\ menu = "exited" <=> attempts = 0
          /\ ~conn

\* every answer at the password prompt uses up one of the prompts left or ends the
\* start-up, and the main menu is entered only by the step that connects
C22_StartupStep ==
    menu = "login" =>
       /\ prompted' = prompted + 1 \/ menu' = "main"
       /\ menu' = "login" => PromptsLeft' < PromptsLeft
       /\ menu' \in {"login", "main", "exited"}
       /\ menu' = "main" <=> conn'

\* C22: start-up always ends within a bounded number of prompts: every run either
\* reaches the main menu holding an open connection or exits the process; the main
\* menu is never entered without a connection, and after 3 failed connection
\* attempts the process exits.
C22_StartupEnds ==
    /\ [] C22_StartupState
    /\ [][C22_StartupStep]_vars
    /\ (menu = "login") ~> ((menu = "main" /\ conn) \/ menu = "exited")

\* the longest start-up: every prompt the bound allows was shown, the third
\* connection attempt failed and the process has exited without a connection
C22_Witness ==
    /\ op = "ConnectionFailed"
    /\ menu = "exited"
    /\ attempts = 0
    /\ prompted = StartupBound
    /\ ~conn

====
